---- MODULE Spec2Model ----
(***************************************************************************)
(* Maamani asset registry: the SQLite variant (asset_manager.py with the   *)
(* users/assets tables) and the spreadsheet variant (the Excel register).  *)
(*                                                                         *)
(* Strings that the code slices or concatenates (names, serial numbers,    *)
(* tags) are sequences of one-character strings.  Option values of a       *)
(* select box, usernames, passwords and messages are atomic strings.       *)
(* Timestamps (now_iso: fixed width, sortable, one-second precision) are   *)
(* the number of seconds on the clock.  The update history, a string of    *)
(* timestamps joined by " | ", is a sequence of tokens: a timestamp, or    *)
(* SEP for the delimiter.                                                  *)
(***************************************************************************)
EXTENDS Integers, Sequences, FiniteSets, TLC

VARIABLES variant,   \* which of the two programs runs: "sqlite" or "xlsx"
          users,     \* the users table: username -> [password_hash, salt, role]
          auth,      \* st.session_state of each browser session
          assets,    \* the assets table (rowid order) / the sheet's rows (file order)
          clock,     \* the wall clock, in seconds
          out,       \* what the last call or handler run returned or displayed
          added,     \* history variable: username -> the (password, role) of the
                     \* last add_user call for it that returned normally
          run        \* the Add/Update script run of each session that has read
                     \* the repository and not yet written (its local variables)

vars == <<variant, users, auth, assets, clock, out, added, run>>

---------------------------------------------------------------------------
(* Bounds of the model *)
MaxAssets == 2      \* rows the repository may hold
MaxTime == 1        \* seconds the clock may advance
MaxUpdates == 2     \* updates one record may receive
MaxRunAssets == 1   \* rows, when the runs of two sessions interleave
MaxRunUpdates == 1  \* counter up to which an interleaved run updates a record

---------------------------------------------------------------------------
(* Input alphabets *)
Sessions == {"s1"}
Usernames == {"admin", "user"}
Passwords == {"admin123", "user123"}
RoleInputs == {"admin", "user", "guest"}
Salts == {1, 2}
None == "None"

Dell == <<"D", "e", "l", "l">>
Accra == <<"A", "c", "c", "r", "a">>
IT == <<"I", "T">>
EmptyStr == <<>>
NameInputs == {EmptyStr, Dell}
SerialInputs == {<<"1">>}
LocationInputs == {Accra}
STATUS_OPTIONS == {"In Use"}
DEPARTMENT_OPTIONS == {IT}

\* datetime.date values (date.today(), or the date picked in a date input).
Today == "date(2025, 6, 30)"
DateInputs == {Today, "date(2025, 12, 31)"}

\* The values a submitted form carries (the fields the model keeps): the
\* text and select inputs, the "Add Disposal Date?" checkbox and the value of
\* the Disposal Date input when the form shows one.
Forms == [asset_name : NameInputs, serial_number : SerialInputs,
          department : DEPARTMENT_OPTIONS, location : LocationInputs,
          status : STATUS_OPTIONS, add_disposal : {FALSE},
          disposal_pick : {Today}]

---------------------------------------------------------------------------
(* String helpers: str.upper(), s[:3], str.zfill(4) *)
LowerCase == <<"a", "b", "c", "d", "e", "f", "g", "h", "i", "j", "k", "l", "m",
               "n", "o", "p", "q", "r", "s", "t", "u", "v", "w", "x", "y", "z">>
UpperCase == <<"A", "B", "C", "D", "E", "F", "G", "H", "I", "J", "K", "L", "M",
               "N", "O", "P", "Q", "R", "S", "T", "U", "V", "W", "X", "Y", "Z">>

upper_char(c) ==
  IF \E k \in 1..Len(LowerCase) : LowerCase[k] = c
  THEN UpperCase[CHOOSE k \in 1..Len(LowerCase) : LowerCase[k] = c]
  ELSE c

upper(s) == [i \in 1..Len(s) |-> upper_char(s[i])]

first3(s) == SubSeq(s, 1, IF Len(s) < 3 THEN Len(s) ELSE 3)

RECURSIVE zero_pad(_, _)
zero_pad(s, w) == IF Len(s) >= w THEN s ELSE zero_pad(<<"0">> \o s, w)

\* str.zfill: zeros go after a leading sign.
zfill(s, w) ==
  IF Len(s) >= w THEN s
  ELSE IF Len(s) > 0 /\ s[1] \in {"+", "-"}
       THEN <<s[1]>> \o zero_pad(Tail(s), w - 1)
       ELSE zero_pad(s, w)

\* Mutant: the name segment is not upper-cased.
generate_asset_tag_no_upper(f) ==
  LET serial == IF f.serial_number # EmptyStr THEN zfill(f.serial_number, 4)
                ELSE <<"0", "0", "0", "0">>
      dept == upper(first3(IF f.department # EmptyStr THEN f.department
                           ELSE <<"G", "E", "N">>))
      loc == upper(first3(IF f.location # EmptyStr THEN f.location
                          ELSE <<"L", "O", "C">>))
      asset == first3(IF f.asset_name # EmptyStr THEN f.asset_name
                      ELSE <<"A", "S", "T">>)
  IN asset \o <<"-">> \o loc \o <<"-">> \o dept \o <<"-">> \o serial

\* generate_asset_tag(form_data) of the SQLite variant.
generate_asset_tag(f) ==
  LET serial == IF f.serial_number # EmptyStr THEN zfill(f.serial_number, 4)
                ELSE <<"0", "0", "0", "0">>
      dept == upper(first3(IF f.department # EmptyStr THEN f.department
                           ELSE <<"G", "E", "N">>))
      loc == upper(first3(IF f.location # EmptyStr THEN f.location
                          ELSE <<"L", "O", "C">>))
      asset == upper(first3(IF f.asset_name # EmptyStr THEN f.asset_name
                            ELSE <<"A", "S", "T">>))
  IN asset \o <<"-">> \o loc \o <<"-">> \o dept \o <<"-">> \o serial

\* The tag the Add branch of the spreadsheet variant builds inline.
xlsx_asset_tag(form_data) ==
  LET dept == IF form_data.department # EmptyStr
              THEN upper(first3(form_data.department)) ELSE <<"G", "E", "N">>
      loc == IF form_data.location # EmptyStr
             THEN upper(first3(form_data.location)) ELSE <<"L", "O", "C">>
      asset == IF form_data.asset_name # EmptyStr
               THEN upper(first3(form_data.asset_name)) ELSE <<"A", "S", "T">>
      serial == IF form_data.serial_number # EmptyStr
                THEN zfill(form_data.serial_number, 4) ELSE <<"0", "0", "0", "0">>
  IN asset \o <<"-">> \o loc \o <<"-">> \o dept \o <<"-">> \o serial

---------------------------------------------------------------------------
(* Credential store *)

\* Mutant: the derived key does not depend on the password.
pbkdf2_hash_no_password(password, salt) == <<"", salt>>

\* PBKDF2-HMAC-SHA256 of (password, salt): one-way, taken as injective.
pbkdf2_hash(password, salt) == <<password, salt>>

ValidRoles == {"admin", "user"}

\* Mutant: the role is not checked before the row is written.
add_user_any_role(U, username, password, role, salt) ==
  [err |-> "none",
   users |-> [x \in DOMAIN U \cup {username} |->
                IF x = username
                THEN [password_hash |-> pbkdf2_hash(password, salt),
                      salt |-> salt, role |-> role]
                ELSE U[x]]]

\* add_user: [err, users] -- the exception raised (or "none") and the table after.
add_user(U, username, password, role, salt) ==
  IF role \notin ValidRoles
  THEN [err |-> "ValueError", users |-> U]
  ELSE [err |-> "none",
        users |-> [x \in DOMAIN U \cup {username} |->
                     IF x = username
                     THEN [password_hash |-> pbkdf2_hash(password, salt),
                           salt |-> salt, role |-> role]
                     ELSE U[x]]]

\* Mutant: a wrong password for a known username still returns the stored role.
verify_user_leaky(U, username, password) ==
  IF username \notin DOMAIN U THEN <<FALSE, None>>
  ELSE <<pbkdf2_hash(password, U[username].salt) = U[username].password_hash,
         U[username].role>>

\* verify_user: <<ok, role>>
verify_user(U, username, password) ==
  IF username \notin DOMAIN U THEN <<FALSE, None>>
  ELSE IF pbkdf2_hash(password, U[username].salt) = U[username].password_hash
       THEN <<TRUE, U[username].role>>
       ELSE <<FALSE, None>>

\* init_db on the users table: it reads the ADMIN_PASSWORD secret and counts
\* the rows with username 'admin', and inserts nothing.
init_db(U, admin_pw) == U

\* st.secrets.get("ADMIN_PASSWORD", None): absent, or the configured password.
AdminSecrets == {None, "s3cret"}

\* The spreadsheet variant's built-in credentials.
USER_CREDENTIALS == [u \in {"admin", "user"} |->
                       IF u = "admin" THEN "admin123" ELSE "user123"]

\* The history variable after a call that stored (username, password, role).
Remember(H, username, password, role) ==
  [x \in DOMAIN H \cup {username} |->
     IF x = username THEN [password |-> password, role |-> role] ELSE H[x]]

LoggedOut == [logged_in |-> FALSE, username |-> None, role |-> None]

NoOut == [op |-> "none", kind |-> "none", msg |-> "none"]

\* No script run in flight: nothing read yet.
NoForm == [asset_name |-> EmptyStr, serial_number |-> EmptyStr,
           department |-> EmptyStr, location |-> EmptyStr, status |-> "In Use",
           add_disposal |-> FALSE, disposal_pick |-> Today]

Idle == [phase |-> "idle", action |-> "none", sel |-> <<>>, form |-> NoForm,
         snap |-> <<>>]

---------------------------------------------------------------------------
(* Asset repository *)

\* The columns the model keeps.  The other columns of ASSET_COLUMNS (Category,
\* Description, Assigned To, Purchase Date, Purchase Price, Condition, Warranty
\* End Date, Maintenance Schedule, Notes) are copied from the
\* form exactly as Status is.  The sheet's columns are held under the same
\* field names as the table's.
SqlCols == {"asset_tag", "asset_name", "serial_number", "department", "location",
            "status", "disposal_date", "date_added", "last_updated",
            "update_count", "update_history"}

py_to_sql_col(py_col) ==
  CASE py_col = "Asset Tag" -> "asset_tag"
    [] py_col = "Asset Name" -> "asset_name"
    [] py_col = "Serial Number" -> "serial_number"
    [] py_col = "Department" -> "department"
    [] py_col = "Location" -> "location"
    [] py_col = "Status" -> "status"
    [] py_col = "Disposal Date" -> "disposal_date"
    [] py_col = "Date Added" -> "date_added"
    [] py_col = "Last Updated" -> "last_updated"
    [] py_col = "Update Count" -> "update_count"
    [] py_col = "Update History" -> "update_history"
    [] OTHER -> py_col

\* The " | " delimiter of the update history, and str(nan): what an empty
\* cell of the sheet reads back as.
SEP == -1
NAN == -2

HasTag(A, tag) == \E i \in 1..Len(A) : A[i].asset_tag = tag

TagsOf(A) == {A[i].asset_tag : i \in 1..Len(A)}

\* get_asset: <<>> for None, <<row>> for the row.
get_asset(A, asset_tag) ==
  IF HasTag(A, asset_tag)
  THEN <<A[CHOOSE i \in 1..Len(A) : A[i].asset_tag = asset_tag]>>
  ELSE <<>>

\* Mutant: ORDER BY date_added ASC.
get_all_assets_df_asc(A) ==
  LET n == Len(A)
      Before(j, i) == \/ A[j].date_added < A[i].date_added
                      \/ A[j].date_added = A[i].date_added /\ j < i
      Rank(i) == Cardinality({j \in 1..n : Before(j, i)}) + 1
  IN [k \in 1..n |-> A[CHOOSE i \in 1..n : Rank(i) = k]]

\* SELECT * FROM assets ORDER BY date_added DESC; equal keys in rowid order.
get_all_assets_df(A) ==
  LET n == Len(A)
      Before(j, i) == \/ A[j].date_added > A[i].date_added
                      \/ A[j].date_added = A[i].date_added /\ j < i
      Rank(i) == Cardinality({j \in 1..n : Before(j, i)}) + 1
  IN [k \in 1..n |-> A[CHOOSE i \in 1..n : Rank(i) = k]]

\* insert_asset: [err, db]; the primary key rejects a second row with the tag.
insert_asset(A, record) ==
  IF HasTag(A, record.asset_tag)
  THEN [err |-> "IntegrityError", db |-> A]
  ELSE [err |-> "none", db |-> Append(A, record)]

\* Mutant: the WHERE clause is missing, every row is updated.
update_asset_no_where(A, asset_tag, updates) ==
  LET keys == DOMAIN updates
      KeyOf(c) == CHOOSE k \in keys : py_to_sql_col(k) = c
      Set(row) == [c \in SqlCols |->
                     IF \E k \in keys : py_to_sql_col(k) = c
                     THEN updates[KeyOf(c)] ELSE row[c]]
  IN IF keys = {} \/ \E k \in keys : py_to_sql_col(k) \notin SqlCols
     THEN [err |-> "OperationalError", db |-> A]
     ELSE [err |-> "none", db |-> [i \in 1..Len(A) |-> Set(A[i])]]

\* update_asset: UPDATE assets SET <col>=? ... WHERE asset_tag=?  -> [err, db].
\* It returns None whether or not a row matched.
update_asset(A, asset_tag, updates) ==
  LET keys == DOMAIN updates
      KeyOf(c) == CHOOSE k \in keys : py_to_sql_col(k) = c
      Set(row) == [c \in SqlCols |->
                     IF \E k \in keys : py_to_sql_col(k) = c
                     THEN updates[KeyOf(c)] ELSE row[c]]
      db == [i \in 1..Len(A) |->
               IF A[i].asset_tag = asset_tag THEN Set(A[i]) ELSE A[i]]
  IN IF keys = {} \/ \E k \in keys : py_to_sql_col(k) \notin SqlCols
     THEN [err |-> "OperationalError", db |-> A]
     ELSE IF \E i, j \in 1..Len(db) : i # j /\ db[i].asset_tag = db[j].asset_tag
          THEN [err |-> "IntegrityError", db |-> A]
          ELSE [err |-> "none", db |-> db]

\* pd.read_excel / DataFrame.to_excel: an empty cell reads back as NaN (NaT
\* in a date column).
load_data(F) ==
  [i \in 1..Len(F) |->
     [F[i] EXCEPT !.update_history = IF @ = <<>> THEN <<NAN>> ELSE @,
                  !.disposal_date = IF @ = None THEN "NaT" ELSE @]]

save_data(df) ==
  [i \in 1..Len(df) |->
     [df[i] EXCEPT !.update_history = IF @ = <<NAN>> THEN <<>> ELSE @,
                   !.disposal_date = IF @ \in {None, "NaT"} THEN None ELSE @]]

\* to_iso: None and "" give None, a date gives its ISO string, a string that
\* parses as a date gives the ISO string, anything else None.
to_iso(d) ==
  CASE d \in {None, ""} -> None
    [] d \in {"date(2025, 6, 30)", "2025-06-30"} -> "2025-06-30"
    [] d \in {"date(2025, 12, 31)", "2025-12-31"} -> "2025-12-31"
    [] OTHER -> None

\* Mutant: the form always shows the checkbox, whatever the record holds.
sql_disposal_input_checkbox_only(existing_date, f) ==
  IF f.add_disposal THEN f.disposal_pick ELSE None

\* form["Disposal Date"] of the SQLite variant: the date input when the
\* record read has a disposal date, else the checkbox and the date input
\* behind it.  existing_date is None for a new asset.
sql_disposal_input(existing_date, f) ==
  IF existing_date \notin {None, ""} THEN f.disposal_pick
  ELSE IF f.add_disposal THEN f.disposal_pick ELSE None

\* form_norm["Disposal Date"].
sql_disposal_norm(existing_date, f) ==
  IF sql_disposal_input(existing_date, f) # None
  THEN to_iso(sql_disposal_input(existing_date, f)) ELSE None

\* form_data["Disposal Date"] of the spreadsheet variant.
xlsx_disposal_input(existing_date, f) ==
  IF existing_date \notin {None, "nan", "NaT"} THEN f.disposal_pick
  ELSE IF f.add_disposal THEN f.disposal_pick ELSE None

\* The record the Add branch builds from the form: `disposal` is the form's
\* Disposal Date as the variant holds it.
new_record(f, new_tag, now, disposal) ==
  [asset_tag |-> new_tag, asset_name |-> f.asset_name,
   serial_number |-> f.serial_number, department |-> f.department,
   location |-> f.location, status |-> f.status, disposal_date |-> disposal,
   date_added |-> now, last_updated |-> now,
   update_count |-> 0, update_history |-> <<>>]

\* Mutant: the delimiter is written even before the first timestamp.
sql_next_history_always_sep(existing_hist, now) == existing_hist \o <<SEP, now>>

\* Update-history tracker of the SQLite variant.
sql_next_history(existing_hist, now) ==
  IF existing_hist # <<>> THEN existing_hist \o <<SEP, now>> ELSE <<now>>

\* Mutant: the updates dict carries no "Last Updated".
sql_updates_no_last_updated(f, existing, now) ==
  [k \in {"Asset Name", "Serial Number", "Department", "Location", "Status",
          "Disposal Date", "Update Count", "Update History"} |->
     CASE k = "Asset Name" -> f.asset_name
       [] k = "Serial Number" -> f.serial_number
       [] k = "Department" -> f.department
       [] k = "Location" -> f.location
       [] k = "Status" -> f.status
       [] k = "Disposal Date" -> sql_disposal_norm(existing.disposal_date, f)
       [] k = "Update Count" -> existing.update_count + 1
       [] k = "Update History" -> sql_next_history(existing.update_history, now)]

\* The updates dict the Update branch of the SQLite variant builds.
sql_updates(f, existing, now) ==
  [k \in {"Asset Name", "Serial Number", "Department", "Location", "Status",
          "Disposal Date", "Last Updated", "Update Count", "Update History"} |->
     CASE k = "Asset Name" -> f.asset_name
       [] k = "Serial Number" -> f.serial_number
       [] k = "Department" -> f.department
       [] k = "Location" -> f.location
       [] k = "Status" -> f.status
       [] k = "Disposal Date" -> sql_disposal_norm(existing.disposal_date, f)
       [] k = "Last Updated" -> now
       [] k = "Update Count" -> existing.update_count + 1
       [] k = "Update History" -> sql_next_history(existing.update_history, now)]

\* Update-history tracker of the spreadsheet variant.
xlsx_next_history(prev_history, now) ==
  IF prev_history \notin {<<>>, <<NAN>>} THEN prev_history \o <<SEP, now>>
  ELSE <<now>>

\* The Update branch of the spreadsheet variant, on the loaded frame.
xlsx_update_row(df, idx, f, now) ==
  [df EXCEPT ![idx] =
     [@ EXCEPT !.asset_name = f.asset_name,
               !.serial_number = f.serial_number,
               !.department = f.department,
               !.location = f.location,
               !.status = f.status,
               !.disposal_date = xlsx_disposal_input(@, f),
               !.last_updated = now,
               !.update_count = @ + 1,
               !.update_history = xlsx_next_history(@, now)]]

---------------------------------------------------------------------------
\* The state after startup, for the browser sessions S.
InitOf(S) ==
  /\ variant \in {"sqlite", "xlsx"}
  /\ \E admin_pw \in AdminSecrets : users = init_db(<<>>, admin_pw)
  /\ auth = [s \in S |-> LoggedOut]
  /\ assets = <<>>
  /\ clock = 0
  /\ out = NoOut
  /\ added = <<>>
  /\ run = [s \in S |-> Idle]

Init == InitOf(Sessions)

Tick ==
  /\ clock < MaxTime
  /\ clock' = clock + 1
  /\ UNCHANGED <<variant, run, added, users, auth, assets, out>>

\* add_user called directly (provisioning of the users table).
AddUserCall(u, p, r, salt) ==
  /\ variant = "sqlite"
  /\ LET res == add_user(users, u, p, r, salt)
     IN /\ users' = res.users
        /\ added' = IF res.err = "none" THEN Remember(added, u, p, r) ELSE added
        /\ out' = [op |-> "add_user", kind |-> res.err, msg |-> "none",
                   username |-> u, password |-> p, role |-> r,
                   replaced |-> u \in DOMAIN users]
  /\ UNCHANGED <<variant, run, auth, assets, clock>>

\* The Login button.
Login(s, u, p) ==
  /\ ~auth[s].logged_in
  /\ LET res == IF variant = "sqlite" THEN verify_user(users, u, p)
                ELSE <<u \in DOMAIN USER_CREDENTIALS /\ USER_CREDENTIALS[u] = p, None>>
     IN IF res[1]
        THEN /\ auth' = [auth EXCEPT ![s] =
                           IF variant = "sqlite"
                           THEN [logged_in |-> TRUE, username |-> u, role |-> res[2]]
                           ELSE [logged_in |-> TRUE, username |-> None, role |-> None]]
             /\ out' = [op |-> "login", kind |-> "success", msg |-> "Welcome",
                        username |-> u, ret |-> res]
        ELSE /\ auth' = auth
             /\ out' = [op |-> "login", kind |-> "error",
                        msg |-> "Invalid username or password",
                        username |-> u, ret |-> res]
  /\ UNCHANGED <<variant, run, added, users, assets, clock>>

\* Menu entry Logout.
Logout(s) ==
  /\ auth[s].logged_in
  /\ auth' = [auth EXCEPT ![s] = LoggedOut]
  /\ out' = [op |-> "logout", kind |-> "none", msg |-> "none"]
  /\ UNCHANGED <<variant, run, added, users, assets, clock>>

\* Mutant: the User Management page is offered to every logged-in session.
UserMgmtSubmit_any_session(s, u, p, r, salt) ==
  /\ variant = "sqlite"
  /\ auth[s].logged_in
  /\ IF u = "" \/ p = ""
     THEN /\ users' = users
          /\ added' = added
          /\ out' = [op |-> "user_mgmt", kind |-> "warning",
                     msg |-> "Username and password required.",
                     username |-> u, password |-> p, role |-> r]
     ELSE /\ users' = add_user(users, u, p, r, salt).users
          /\ added' = Remember(added, u, p, r)
          /\ out' = [op |-> "user_mgmt", kind |-> "success", msg |-> "added/updated",
                     username |-> u, password |-> p, role |-> r]
  /\ UNCHANGED <<variant, run, auth, assets, clock>>

\* User Management: the "Add / Update User" form (admins, SQLite variant).
UserMgmtSubmit(s, u, p, r, salt) ==
  /\ variant = "sqlite"
  /\ auth[s].logged_in
  /\ auth[s].role = "admin"
  /\ IF u = "" \/ p = ""
     THEN /\ users' = users
          /\ added' = added
          /\ out' = [op |-> "user_mgmt", kind |-> "warning",
                     msg |-> "Username and password required.",
                     username |-> u, password |-> p, role |-> r]
     ELSE /\ users' = add_user(users, u, p, r, salt).users
          /\ added' = Remember(added, u, p, r)
          /\ out' = [op |-> "user_mgmt", kind |-> "success", msg |-> "added/updated",
                     username |-> u, password |-> p, role |-> r]
  /\ UNCHANGED <<variant, run, auth, assets, clock>>

---------------------------------------------------------------------------
(* Asset pages (shown only to a logged-in session) *)

\* View Assets: the listing of the running variant.
listAll(v, A) == IF v = "sqlite" THEN get_all_assets_df(A) ELSE load_data(A)

ViewAssets(s) ==
  /\ auth[s].logged_in
  /\ out' = [op |-> "view", kind |-> "none", msg |-> "none",
             rows |-> listAll(variant, assets)]
  /\ UNCHANGED <<variant, run, added, users, auth, assets, clock>>

\* Mutant: on a collision the tag gets a suffix and the record is inserted.
sql_add_new_suffix(A, f, now) ==
  LET new_tag == generate_asset_tag(f)
      free_tag == IF HasTag(A, new_tag) THEN new_tag \o <<"-", "1">> ELSE new_tag
  IN [kind |-> "success", msg |-> "added",
      db |-> insert_asset(A, new_record(f, free_tag, now,
                                        sql_disposal_norm(None, f))).db]

\* Add/Update Asset, action "Add New Asset", SQLite variant.
sql_add_new(A, f, now) ==
  LET new_tag == generate_asset_tag(f)
  IN IF get_asset(A, new_tag) # <<>>
     THEN [kind |-> "error", msg |-> "Asset Tag already exists", db |-> A]
     ELSE [kind |-> "success", msg |-> "added",
           db |-> insert_asset(A, new_record(f, new_tag, now,
                                             sql_disposal_norm(None, f))).db]

\* Add/Update Asset, action "Add New Asset", spreadsheet variant.
xlsx_add_new(F, f, now) ==
  LET df == load_data(F)
      new_tag == xlsx_asset_tag(f)
  IN [kind |-> "success", msg |-> "added",
      db |-> save_data(Append(df, new_record(f, new_tag, now,
                                             xlsx_disposal_input(None, f))))]

AddNewAsset(s, f) ==
  /\ auth[s].logged_in
  /\ \/ Len(assets) < MaxAssets
     \/ variant = "sqlite" /\ HasTag(assets, generate_asset_tag(f))
  /\ LET res == IF variant = "sqlite" THEN sql_add_new(assets, f, clock)
                ELSE xlsx_add_new(assets, f, clock)
     IN /\ assets' = res.db
        /\ out' = [op |-> "add", kind |-> res.kind, msg |-> res.msg,
                   tag |-> IF variant = "sqlite" THEN generate_asset_tag(f)
                           ELSE xlsx_asset_tag(f)]
  /\ UNCHANGED <<variant, run, added, users, auth, clock>>

\* Add/Update Asset, action "Update Existing Asset", SQLite variant.
sql_update_existing(A, selected_tag, f, now) ==
  LET existing == get_asset(A, selected_tag)[1]
  IN [kind |-> "success", msg |-> "updated",
      db |-> update_asset(A, selected_tag, sql_updates(f, existing, now)).db]

\* Add/Update Asset, action "Update Existing Asset", spreadsheet variant.
xlsx_update_existing(F, asset_tag, f, now) ==
  LET df == load_data(F)
      idx == CHOOSE i \in 1..Len(df) :
               /\ df[i].asset_tag = asset_tag
               /\ \A j \in 1..(i - 1) : df[j].asset_tag # asset_tag
  IN [kind |-> "success", msg |-> "updated",
      db |-> save_data(xlsx_update_row(df, idx, f, now))]

\* With no asset in the repository there is no selection: the SQLite variant
\* shows an error, the spreadsheet variant's index lookup raises IndexError.
UpdateNoSelection(s, f) ==
  /\ auth[s].logged_in
  /\ assets = <<>>
  /\ out' = IF variant = "sqlite"
            THEN [op |-> "update", kind |-> "error",
                  msg |-> "Please select an Asset Tag to update.", tag |-> <<>>]
            ELSE [op |-> "update", kind |-> "exception", msg |-> "IndexError",
                  tag |-> <<>>]
  /\ UNCHANGED <<variant, run, added, users, auth, assets, clock>>

UpdateExistingAsset(s, sel, f) ==
  /\ auth[s].logged_in
  /\ sel \in TagsOf(assets)
  /\ get_asset(assets, sel)[1].update_count < MaxUpdates
  /\ LET res == IF variant = "sqlite"
                THEN sql_update_existing(assets, sel, f, clock)
                ELSE xlsx_update_existing(assets, sel, f, clock)
     IN /\ assets' = res.db
        /\ out' = [op |-> "update", kind |-> res.kind, msg |-> res.msg, tag |-> sel]
  /\ UNCHANGED <<variant, run, added, users, auth, clock>>

NextAssets ==
  \/ Tick
  \/ \E s \in Sessions : ViewAssets(s)
  \/ \E s \in Sessions, f \in Forms : AddNewAsset(s, f)
  \/ \E s \in Sessions, f \in Forms : UpdateNoSelection(s, f)
  \/ \E s \in Sessions, f \in Forms :
       \E sel \in TagsOf(assets) : UpdateExistingAsset(s, sel, f)

---------------------------------------------------------------------------
(* Add/Update Asset with several sessions: a script run reads the            *)
(* repository, builds the form values, and writes later; the runs of other   *)
(* sessions may come in between.                                            *)

ConcSessions == {"s1", "s2"}

\* Mutant: the write recomputes counter and history from the row as stored
\* at the time of the write.
sql_update_write_reread(A, existing, selected_tag, f, now) ==
  [kind |-> "success", msg |-> "updated",
   db |-> update_asset(A, selected_tag,
                       sql_updates(f, get_asset(A, selected_tag)[1], now)).db]

\* The Update branch of the SQLite variant, given the row `existing` that
\* get_asset returned earlier in the run.
sql_update_write(A, existing, selected_tag, f, now) ==
  [kind |-> "success", msg |-> "updated",
   db |-> update_asset(A, selected_tag, sql_updates(f, existing, now)).db]

\* The run reads: the SQLite variant nothing it keeps for an Add, the
\* spreadsheet variant the whole sheet.
BeginAdd(s, f) ==
  /\ auth[s].logged_in
  /\ run[s].phase = "idle"
  /\ Len(assets) < MaxRunAssets
  /\ run' = [run EXCEPT ![s] =
               [phase |-> "read", action |-> "add", sel |-> <<>>, form |-> f,
                snap |-> IF variant = "sqlite" THEN <<>> ELSE assets]]
  /\ UNCHANGED <<variant, added, users, auth, assets, clock, out>>

\* The run writes: the SQLite variant checks the tag and inserts, the
\* spreadsheet variant appends to the frame it loaded and saves that frame.
FinishAdd(s) ==
  /\ run[s].phase = "read"
  /\ run[s].action = "add"
  /\ LET r == run[s]
         res == IF variant = "sqlite" THEN sql_add_new(assets, r.form, clock)
                ELSE xlsx_add_new(r.snap, r.form, clock)
     IN /\ Len(res.db) <= MaxRunAssets
        /\ assets' = res.db
        /\ out' = [op |-> "add", kind |-> res.kind, msg |-> res.msg,
                   tag |-> IF variant = "sqlite" THEN generate_asset_tag(r.form)
                           ELSE xlsx_asset_tag(r.form)]
  /\ run' = [run EXCEPT ![s] = Idle]
  /\ UNCHANGED <<variant, added, users, auth, clock>>

\* The run reads: the SQLite variant the selected row, the spreadsheet
\* variant the whole sheet.
BeginUpdate(s, sel, f) ==
  /\ auth[s].logged_in
  /\ run[s].phase = "idle"
  /\ sel \in TagsOf(assets)
  /\ get_asset(assets, sel)[1].update_count < MaxRunUpdates
  /\ run' = [run EXCEPT ![s] =
               [phase |-> "read", action |-> "update", sel |-> sel, form |-> f,
                snap |-> IF variant = "sqlite" THEN get_asset(assets, sel)
                         ELSE assets]]
  /\ UNCHANGED <<variant, added, users, auth, assets, clock, out>>

\* The run writes what it computed from the row (sheet) it read.  out keeps,
\* for the claims, the row the run had read and the row as it was stored just
\* before the write (<<>> when the sheet no longer held it).
FinishUpdate(s) ==
  /\ run[s].phase = "read"
  /\ run[s].action = "update"
  /\ LET r == run[s]
         res == IF variant = "sqlite"
                THEN sql_update_write(assets, r.snap[1], r.sel, r.form, clock)
                ELSE xlsx_update_existing(r.snap, r.sel, r.form, clock)
     IN /\ assets' = res.db
        /\ out' = [op |-> "update", kind |-> res.kind, msg |-> res.msg,
                   tag |-> r.sel, read |-> get_asset(r.snap, r.sel)[1],
                   stored |-> get_asset(assets, r.sel)]
  /\ run' = [run EXCEPT ![s] = Idle]
  /\ UNCHANGED <<variant, added, users, auth, clock>>

\* The forms of the update runs.
RunUpdateForms == {f \in Forms : f.asset_name = Dell}

NextConc ==
  \/ AddUserCall("admin", "admin123", "admin", 1)
  \/ \E s \in ConcSessions : Login(s, "admin", "admin123")
  \/ Tick
  \/ \E s \in ConcSessions, f \in Forms : BeginAdd(s, f)
  \/ \E s \in ConcSessions : FinishAdd(s)
  \/ \E s \in ConcSessions, f \in RunUpdateForms :
       \E sel \in TagsOf(assets) : BeginUpdate(s, sel, f)
  \/ \E s \in ConcSessions : FinishUpdate(s)

SpecConc == InitOf(ConcSessions) /\ [][NextConc]_vars

\* The forms of the runs in which one asset is followed through interleaved
\* updates: one asset name, the "Add Disposal Date?" checkbox either way.
DisposalForms == [asset_name : {Dell}, serial_number : SerialInputs,
                  department : DEPARTMENT_OPTIONS, location : LocationInputs,
                  status : STATUS_OPTIONS, add_disposal : BOOLEAN,
                  disposal_pick : {Today}]

NextDisposal ==
  \/ AddUserCall("admin", "admin123", "admin", 1)
  \/ \E s \in ConcSessions : Login(s, "admin", "admin123")
  \/ Tick
  \/ \E s \in ConcSessions, f \in DisposalForms : BeginAdd(s, f)
  \/ \E s \in ConcSessions : FinishAdd(s)
  \/ \E s \in ConcSessions, f \in DisposalForms :
       \E sel \in TagsOf(assets) : BeginUpdate(s, sel, f)
  \/ \E s \in ConcSessions : FinishUpdate(s)

SpecDisposal == InitOf(ConcSessions) /\ [][NextDisposal]_vars

NextAuth ==
  \/ \E u \in Usernames, p \in Passwords, r \in RoleInputs, salt \in Salts :
       AddUserCall(u, p, r, salt)
  \/ \E s \in Sessions, u \in Usernames, p \in Passwords : Login(s, u, p)
  \/ \E s \in Sessions : Logout(s)
  \/ \E s \in Sessions, u \in Usernames \cup {""}, p \in Passwords \cup {""},
        r \in ValidRoles, salt \in Salts : UserMgmtSubmit(s, u, p, r, salt)

InitAuth == Init /\ variant = "sqlite"

SpecAuth == InitAuth /\ [][NextAuth]_vars

---------------------------------------------------------------------------
(* The repository functions of the SQLite variant, called directly *)

OtherTag == <<"X">>
ApiTags == {generate_asset_tag(f) : f \in Forms} \cup {OtherTag}

\* The updates dicts the calls are given, in turn: one column, the key
\* column, two columns, the key column set to a generated tag, a key that is no
\* column, and the empty dict.
ApiUpdates ==
  << ("Status" :> "Disposed"),
     ("Asset Tag" :> OtherTag),
     ("Asset Name" :> Dell) @@ ("Update Count" :> 5),
     ("Asset Tag" :> generate_asset_tag([asset_name |-> Dell,
         serial_number |-> <<"1">>, department |-> IT, location |-> Accra])),
     ("Bogus" :> "x"),
     <<>> >>

InsertAssetCall(tag, f) ==
  /\ Len(assets) < MaxAssets \/ HasTag(assets, tag)
  /\ LET res == insert_asset(assets, new_record(f, tag, clock, None))
     IN /\ assets' = res.db
        /\ out' = [op |-> "insert_asset", kind |-> res.err, msg |-> "none",
                   tag |-> tag, before |-> assets]
  /\ UNCHANGED <<variant, run, added, users, auth, clock>>

UpdateAssetCall(tag, updates) ==
  /\ LET res == update_asset(assets, tag, updates)
     IN /\ assets' = res.db
        /\ out' = [op |-> "update_asset", kind |-> res.err, msg |-> "none",
                   tag |-> tag, updates |-> updates,
                   found |-> HasTag(assets, tag), before |-> assets]
  /\ UNCHANGED <<variant, run, added, users, auth, clock>>

NextApi ==
  \/ \E tag \in ApiTags, f \in Forms : InsertAssetCall(tag, f)
  \/ \E tag \in ApiTags, i \in 1..Len(ApiUpdates) :
       UpdateAssetCall(tag, ApiUpdates[i])

SpecApi == InitAuth /\ [][NextApi]_vars

---------------------------------------------------------------------------
(* The tag generator, called directly in either variant *)

Finance == <<"F", "i", "n", "a", "n", "c", "e">>
TagNames == {EmptyStr, <<"D">>, <<"h", "p">>, Dell, <<"a", "-", "b", "c">>}
TagLocations == {EmptyStr, <<"H", "Q">>, Accra}
TagDepartments == {EmptyStr, IT, Finance}
TagSerials == {EmptyStr, <<"7">>, <<"0", "0", "4", "2">>,
               <<"1", "2", "3", "4", "5">>, <<"S", "N", "9">>, <<"-", "1">>}
TagForms == [asset_name : TagNames, serial_number : TagSerials,
             department : TagDepartments, location : TagLocations]

GenerateTagCall(f) ==
  /\ out' = [op |-> "generate_asset_tag", kind |-> "none", msg |-> "none",
             form |-> f,
             tag |-> IF variant = "sqlite" THEN generate_asset_tag(f)
                     ELSE xlsx_asset_tag(f)]
  /\ UNCHANGED <<variant, run, added, users, auth, assets, clock>>

NextTag == \E f \in TagForms : GenerateTagCall(f)

SpecTag == Init /\ [][NextTag]_vars

---------------------------------------------------------------------------
(* generate_qr_pdf, called directly.  Lengths are in hundredths of a point. *)

MaxLabels == 25     \* tags in the list generate_qr_pdf is given

\* reportlab.lib.pagesizes.A4: 210 mm x 297 mm = 595.28 pt x 841.89 pt.
A4_WIDTH == 59528
A4_HEIGHT == 84189

\* Mutant: no page break, the rows go on down the first page.
next_cursor_no_show_page(cur) ==
  IF cur.x + 15000 > A4_WIDTH - 12000
  THEN [x |-> 5000, y |-> cur.y - 15000, page |-> cur.page]
  ELSE [x |-> cur.x + 15000, y |-> cur.y, page |-> cur.page]

\* The cursor after a label: x += 150; past width - 120 back to x = 50 and
\* y -= 150; below 100 showPage() and y = height - 150.
next_cursor(cur) ==
  IF cur.x + 15000 > A4_WIDTH - 12000
  THEN IF cur.y - 15000 < 10000
       THEN [x |-> 5000, y |-> A4_HEIGHT - 15000, page |-> cur.page + 1]
       ELSE [x |-> 5000, y |-> cur.y - 15000, page |-> cur.page]
  ELSE [x |-> cur.x + 15000, y |-> cur.y, page |-> cur.page]

\* The loop over asset_tags[k..]: drawImage(x, y, width=100, height=100) and
\* drawString(x, y - 15, tag), then the cursor moves on.
RECURSIVE qr_loop(_, _, _)
qr_loop(asset_tags, k, cur) ==
  IF k > Len(asset_tags) THEN <<>>
  ELSE <<[tag |-> asset_tags[k], page |-> cur.page,
          x |-> cur.x, y |-> cur.y, w |-> 10000, h |-> 10000,
          text_x |-> cur.x, text_y |-> cur.y - 1500]>>
       \o qr_loop(asset_tags, k + 1, next_cursor(cur))

\* generate_qr_pdf(asset_tags): what is drawn, in drawing order.
generate_qr_pdf(asset_tags) ==
  qr_loop(asset_tags, 1, [x |-> 5000, y |-> A4_HEIGHT - 15000, page |-> 1])

\* Lists of n tags; the tag is a number here, the layout does not read it.
QrLists == {[k \in 1..n |-> o + k] : n \in 0..MaxLabels, o \in 0..3}

GenerateQrCall(asset_tags) ==
  /\ out' = [op |-> "generate_qr_pdf", kind |-> "none", msg |-> "none",
             asset_tags |-> asset_tags, drawn |-> generate_qr_pdf(asset_tags)]
  /\ UNCHANGED <<variant, run, added, users, auth, assets, clock>>

NextQr == \E asset_tags \in QrLists : GenerateQrCall(asset_tags)

SpecQr == Init /\ [][NextQr]_vars

---------------------------------------------------------------------------
(* The Dashboard filters and counts of the SQLite variant, on a given frame *)

MaxRows == 3        \* rows of the frame the dashboard is given

\* Rows of get_all_assets_df(), with the columns the filters read.  Only the
\* Category multiselect is kept; Department, Condition and Status are
\* filtered by the same isin test.
DashRows ==
  { [asset_name |-> Dell, asset_tag |-> <<"D", "E", "L", "-", "1">>,
     description |-> <<"H", "R">>, category |-> "Laptop",
     purchase_date |-> "2025-01-10"],
    [asset_name |-> <<"H", "P">>, asset_tag |-> <<"H", "P", "-", "2">>,
     description |-> <<>>, category |-> "Laptop", purchase_date |-> None],
    [asset_name |-> <<"O", "k", "i">>, asset_tag |-> <<"O", "K", "I", "-", "3">>,
     description |-> <<"h", "p">>, category |-> "Printer",
     purchase_date |-> "2025-02-20"] }

DashFrames == UNION {[1..n -> DashRows] : n \in 1..MaxRows}
SearchTexts == {<<>>, <<"h", "p">>, <<"D", "E", "L">>, <<"d", ".", "l">>}
CategoryFilters == {{}, {"Laptop"}}
DateRanges == {<<>>, <<"date(2025, 1, 1)", "date(2025, 1, 31)">>}

\* pd.to_datetime(..., errors="coerce"): the day of the year 2025, or NaT.
NaT == -1
to_datetime(d) ==
  CASE d \in {"2025-01-10", "date(2025, 1, 10)"} -> 10
    [] d \in {"2025-01-01", "date(2025, 1, 1)"} -> 1
    [] d \in {"2025-01-31", "date(2025, 1, 31)"} -> 31
    [] d \in {"2025-02-20", "date(2025, 2, 20)"} -> 51
    [] OTHER -> NaT

\* Series.str.contains(pat, case=False): pat is a regular expression, searched
\* anywhere in the text; of the metacharacters the model has "." (any one
\* character).
str_contains(text, pat) ==
  \E k \in 1..(Len(text) - Len(pat) + 1) :
    \A i \in 1..Len(pat) :
      pat[i] = "." \/ upper_char(pat[i]) = upper_char(text[k + i - 1])

\* The Dashboard's filter chain and KPIs.  The frame has no column named
\* "Description" (the rename leaves "description" as it is), so the third
\* operand of the search mask is the default Series of empty strings.
dashboard(df, search_text, f_category, date_range) ==
  LET Mask(row) == \/ str_contains(row.asset_name, search_text)
                   \/ str_contains(row.asset_tag, search_text)
                   \/ str_contains(<<>>, search_text)
      f1 == IF search_text # <<>> THEN SelectSeq(df, Mask) ELSE df
      InCat(row) == row.category \in f_category
      f2 == IF f_category # {} THEN SelectSeq(f1, InCat) ELSE f1
      InRange(row) ==
        /\ to_datetime(row.purchase_date) # NaT
        /\ to_datetime(row.purchase_date) >= to_datetime(date_range[1])
        /\ to_datetime(row.purchase_date) <= to_datetime(date_range[2])
      fdf == IF Len(date_range) = 2 THEN SelectSeq(f2, InRange) ELSE f2
      cats == {fdf[i].category : i \in 1..Len(fdf)}
  IN [fdf |-> fdf, total_assets |-> Len(fdf),
      cat_counts |-> [c \in cats |->
                        Cardinality({i \in 1..Len(fdf) : fdf[i].category = c})]]

DashboardCall(df, search_text, f_category, date_range) ==
  /\ out' = [op |-> "dashboard", kind |-> "none", msg |-> "none", df |-> df,
             search_text |-> search_text, f_category |-> f_category,
             date_range |-> date_range,
             view |-> dashboard(df, search_text, f_category, date_range)]
  /\ UNCHANGED <<variant, run, added, users, auth, assets, clock>>

NextDash ==
  \E df \in DashFrames, search_text \in SearchTexts,
     f_category \in CategoryFilters, date_range \in DateRanges :
    DashboardCall(df, search_text, f_category, date_range)

SpecDash == InitAuth /\ [][NextDash]_vars

---------------------------------------------------------------------------
(* The SQLite application with every page of its menu *)

\* The multiselect's value: stored tags, each at most once, in the order of
\* selection.
QrSelections(A) ==
  {sel \in UNION {[1..n -> TagsOf(A)] : n \in 0..Len(A)} :
     \A i, j \in 1..Len(sel) : i # j => sel[i] # sel[j]}

\* Generate QR Codes: a warning while there is no asset, else the PDF of the
\* selected tags once the button is pressed (no button for an empty selection).
GenerateQrPage(s, asset_tags) ==
  /\ auth[s].logged_in
  /\ assets # <<>> => asset_tags # <<>>
  /\ out' = IF get_all_assets_df(assets) = <<>>
            THEN [op |-> "qr", kind |-> "warning", msg |-> "No assets found",
                  asset_tags |-> <<>>, drawn |-> <<>>]
            ELSE [op |-> "qr", kind |-> "download", msg |-> "asset_qr_codes.pdf",
                  asset_tags |-> asset_tags,
                  drawn |-> generate_qr_pdf(asset_tags)]
  /\ UNCHANGED <<variant, run, added, users, auth, assets, clock>>

\* Dashboard with every filter left empty: the whole frame passes.
DashboardPage(s) ==
  /\ auth[s].logged_in
  /\ out' = IF get_all_assets_df(assets) = <<>>
            THEN [op |-> "dashboard_page", kind |-> "warning",
                  msg |-> "No data available.", rows |-> <<>>,
                  total_assets |-> 0]
            ELSE [op |-> "dashboard_page", kind |-> "none", msg |-> "none",
                  rows |-> get_all_assets_df(assets),
                  total_assets |-> Len(get_all_assets_df(assets))]
  /\ UNCHANGED <<variant, run, added, users, auth, assets, clock>>

AppForms == {f \in Forms : f.asset_name = Dell}

NextApp ==
  \/ AddUserCall("admin", "admin123", "admin", 1)
  \/ AddUserCall("user", "user123", "user", 1)
  \/ \E s \in Sessions, u \in Usernames, p \in Passwords : Login(s, u, p)
  \/ \E s \in Sessions : Logout(s)
  \/ \E s \in Sessions, u \in {"user", ""}, r \in ValidRoles :
       UserMgmtSubmit(s, u, "user123", r, 1)
  \/ Tick
  \/ \E s \in Sessions : ViewAssets(s)
  \/ \E s \in Sessions, f \in AppForms : AddNewAsset(s, f)
  \/ \E s \in Sessions, f \in AppForms : UpdateNoSelection(s, f)
  \/ \E s \in Sessions, f \in AppForms :
       \E sel \in TagsOf(assets) : UpdateExistingAsset(s, sel, f)
  \/ \E s \in Sessions :
       \E asset_tags \in QrSelections(assets) : GenerateQrPage(s, asset_tags)
  \/ \E s \in Sessions : DashboardPage(s)

SpecApp == InitAuth /\ [][NextApp]_vars

\* The application: either variant, its login and its asset pages (the User
\* Management page is in SpecAuth).  init_db creates no user, so the users
\* table of the SQLite variant is provisioned by a direct add_user call.
Next ==
  \/ AddUserCall("admin", "admin123", "admin", 1)
  \/ \E s \in Sessions, u \in Usernames, p \in Passwords : Login(s, u, p)
  \/ \E s \in Sessions : Logout(s)
  \/ NextAssets

Spec == Init /\ [][Next]_vars
---------------------------------------------------------------------------
(* Claims *)

RECURSIVE SplitOnSep(_)
SplitOnSep(h) ==
  IF \A k \in 1..Len(h) : h[k] # SEP THEN <<h>>
  ELSE LET k == CHOOSE x \in 1..Len(h) :
                  h[x] = SEP /\ \A y \in 1..(x - 1) : h[y] # SEP
       IN <<SubSeq(h, 1, k - 1)>> \o SplitOnSep(SubSeq(h, k + 1, Len(h)))

\* The entries of a stored history: the pieces between the delimiters.
HistoryEntries(h) == IF h = <<>> THEN <<>> ELSE SplitOnSep(h)

HistoryMatchesCounter(row) ==
  LET es == HistoryEntries(row.update_history)
  IN /\ Len(es) = row.update_count
     /\ \A k \in 1..Len(es) : Len(es[k]) = 1 /\ es[k][1] >= 0

\* C1: in both variants, after every step each stored record's history holds
\* exactly update_count timestamps separated by the delimiter; a record that
\* appears in a step starts with counter 0 and an empty history; a record
\* that changes in a step has its counter raised by exactly 1 and exactly one
\* timestamp (the current time) appended; and every successful update does
\* raise the counter of the selected record.
C1_HistoryMatchesCounter ==
  [][ /\ Len(assets') >= Len(assets)
      /\ \A i \in 1..Len(assets') :
           /\ HistoryMatchesCounter(assets'[i])
           /\ IF i <= Len(assets)
              THEN \/ /\ assets'[i].update_count = assets[i].update_count
                      /\ assets'[i].update_history = assets[i].update_history
                   \/ /\ assets'[i].update_count = assets[i].update_count + 1
                      /\ HistoryEntries(assets'[i].update_history) =
                           Append(HistoryEntries(assets[i].update_history), <<clock>>)
              ELSE /\ assets'[i].update_count = 0
                   /\ assets'[i].update_history = <<>>
      /\ \A s \in Sessions, f \in Forms, sel \in TagsOf(assets) :
           UpdateExistingAsset(s, sel, f) =>
             \E i \in 1..Len(assets) :
               /\ assets[i].asset_tag = sel
               /\ assets'[i].update_count = assets[i].update_count + 1 ]_vars

\* C1 witness: a record has just received its second update, the one that
\* writes the delimiter.
C1_Witness ==
  \E i \in 1..Len(assets) :
    /\ assets[i].update_count = 2
    /\ Len(assets[i].update_history) = 3
    /\ out.op = "update" /\ out.kind = "success"

\* C2 (as claimed): no two stored records carry the same Asset Tag, in either
\* variant.
C2_TagsUnique ==
  \A i, j \in 1..Len(assets) : i # j => assets[i].asset_tag # assets[j].asset_tag

\* C3: in the SQLite variant, an Add New Asset submission whose generated tag
\* is already stored shows the duplicate-tag error and leaves the repository
\* exactly as it was (nothing inserted, nothing modified, no other tag tried).
C3_DuplicateRejected ==
  [][ \A s \in Sessions, f \in Forms :
        (/\ variant = "sqlite"
         /\ \E i \in 1..Len(assets) : assets[i].asset_tag = generate_asset_tag(f)
         /\ AddNewAsset(s, f))
        => /\ assets' = assets
           /\ out'.kind = "error"
           /\ out'.msg = "Asset Tag already exists" ]_vars

\* C3 witness: a creation was just rejected for a tag that is stored.
C3_Witness ==
  /\ variant = "sqlite"
  /\ out.op = "add" /\ out.kind = "error"
  /\ \E i \in 1..Len(assets) : assets[i].asset_tag = out.tag
\* C4 (as claimed): update_asset leaves the asset_tag of every row as it was,
\* whatever fieldChanges it is given.
C4_UpdateKeepsTag ==
  out.op = "update_asset" =>
    /\ Len(assets) = Len(out.before)
    /\ \A i \in 1..Len(assets) : assets[i].asset_tag = out.before[i].asset_tag

\* C5: verify_user(u, p) returns (True, r) exactly when the last add_user for
\* u that returned normally used password p and role r, and (False, None) for
\* every other password and every username never added.
C5_VerifyRoundTrip ==
  \A u \in Usernames \cup {""}, p \in Passwords \cup {""} :
    verify_user(users, u, p) =
      IF u \in DOMAIN added /\ added[u].password = p
      THEN <<TRUE, added[u].role>>
      ELSE <<FALSE, "None">>

\* C5 witness: an add_user call has just replaced an existing entry; the new
\* password verifies and the other one does not, while another username was
\* never added.
C5_Witness ==
  /\ out.op = "add_user" /\ out.kind = "none" /\ out.replaced
  /\ verify_user(users, out.username, out.password)[1]
  /\ \E p \in Passwords : p # out.password /\ ~verify_user(users, out.username, p)[1]
  /\ \E u \in Usernames : u \notin DOMAIN users

\* C6: an add_user call with a role other than 'admin' or 'user' raises
\* ValueError and leaves the users table as it was.
C6_InvalidRoleRejected ==
  [][ \A u \in Usernames, p \in Passwords, r \in RoleInputs, salt \in Salts :
        (r \notin {"admin", "user"} /\ AddUserCall(u, p, r, salt))
        => /\ users' = users
           /\ out'.kind = "ValueError" ]_vars

\* C6 witness: a call with an invalid role was just rejected for a username
\* that has an entry.
C6_Witness ==
  /\ out.op = "add_user" /\ out.kind = "ValueError"
  /\ out.role \notin {"admin", "user"}
  /\ out.username \in DOMAIN users

\* The users table without the entry of u.
WithoutUser(U, u) == [x \in DOMAIN U \ {u} |-> U[x]]

\* C7: a Login that fails gives the same observation whether or not the
\* username is in the users table: verify_user returns (False, None), as it
\* does on the table without that username; the session stays logged out with
\* its auth state unchanged; the message is the one fixed error; the users
\* table is unchanged.
C7_FailedLoginUniform ==
  [][ \A s \in Sessions, u \in Usernames, p \in Passwords :
        (Login(s, u, p) /\ ~out'.ret[1])
        => /\ out'.ret = <<FALSE, "None">>
           /\ verify_user(WithoutUser(users, u), u, p) = out'.ret
           /\ out'.kind = "error"
           /\ out'.msg = "Invalid username or password"
           /\ auth' = auth
           /\ auth'[s] = [logged_in |-> FALSE, username |-> "None", role |-> "None"]
           /\ users' = users ]_vars

\* C7 witness: a login with a wrong password for a known username has just
\* failed, while another username is unknown.
C7_Witness ==
  /\ out.op = "login" /\ out.kind = "error"
  /\ out.username \in DOMAIN users
  /\ \E u \in Usernames : u \notin DOMAIN users

\* C8 (as claimed): update_asset on a tag that is not stored fails with a
\* not-found error.
C8_UpdateAbsentTagFails ==
  (out.op = "update_asset" /\ ~out.found) => out.kind = "NotFoundError"

\* The columns a fieldChanges dict names.
NamedCols(updates) ==
  {c \in SqlCols : \E k \in DOMAIN updates :
     \/ k = "Asset Tag" /\ c = "asset_tag"
     \/ k = "Asset Name" /\ c = "asset_name"
     \/ k = "Status" /\ c = "status"
     \/ k = "Update Count" /\ c = "update_count"}

\* C9: after update_asset(tag, fieldChanges) the table has the same rows;
\* every row whose tag was not `tag` is as before, and in the row whose tag
\* was `tag` every column not named in fieldChanges is as before.
C9_UpdateFrame ==
  out.op = "update_asset" =>
    /\ Len(assets) = Len(out.before)
    /\ \A i \in 1..Len(assets) :
         IF out.before[i].asset_tag = out.tag
         THEN \A c \in SqlCols \ NamedCols(out.updates) :
                assets[i][c] = out.before[i][c]
         ELSE assets[i] = out.before[i]

\* C9 witness: a call has just changed one of two stored rows.
C9_Witness ==
  /\ out.op = "update_asset" /\ out.kind = "none" /\ out.found
  /\ Len(assets) = 2
  /\ assets # out.before

\* A stored record and the row a listing returns for it (an empty history
\* cell of the sheet reads back as NaN).
SameRecord(row, stored) ==
  [row EXCEPT !.update_history = IF @ = <<NAN>> THEN <<>> ELSE @,
              !.disposal_date = IF @ = "NaT" THEN "None" ELSE @] = stored

ExactlyOnce(rows, A) ==
  /\ Len(rows) = Len(A)
  /\ \E pi \in Permutations(1..Len(A)) :
       \A k \in 1..Len(A) : SameRecord(rows[k], A[pi[k]])

NewestFirst(rows) ==
  \A k \in 1..(Len(rows) - 1) : rows[k].date_added >= rows[k + 1].date_added

OldestFirst(rows) ==
  \A k \in 1..(Len(rows) - 1) : rows[k].date_added <= rows[k + 1].date_added

\* C10 (as claimed): in both variants a listing returns every stored record
\* exactly once, newest first.
C10_ListNewestFirst ==
  out.op = "view" => ExactlyOnce(out.rows, assets) /\ NewestFirst(out.rows)

\* C10 (amended): a listing returns every stored record exactly once; in the
\* SQLite variant newest first, in the spreadsheet variant in file order, which
\* is oldest first; and as long as nothing is written, a further call returns
\* the same rows in the same order.
C10_ListOrder ==
  out.op = "view" =>
    /\ ExactlyOnce(out.rows, assets)
    /\ variant = "sqlite" => NewestFirst(out.rows)
    /\ variant = "xlsx" =>
         /\ OldestFirst(out.rows)
         /\ \A k \in 1..Len(assets) : SameRecord(out.rows[k], assets[k])
    /\ listAll(variant, assets) = out.rows

\* C10 witness: a listing of the SQLite variant in which the row stored
\* second, created later, comes first.
C10_Witness ==
  /\ variant = "sqlite" /\ out.op = "view"
  /\ Len(assets) = 2
  /\ assets[1].date_added < assets[2].date_added
  /\ out.rows[1] = assets[2]

IsDigit(c) == c \in {"0", "1", "2", "3", "4", "5", "6", "7", "8", "9"}
IsLower(c) == \E k \in 1..Len(LowerCase) : LowerCase[k] = c

\* XXX-XXX-XXX-NNNN: three segments of three characters, none of them a
\* lower-case letter or a hyphen, and a last segment of exactly four digits.
MatchesTagFormat(t) ==
  /\ Len(t) = 15
  /\ \A k \in {4, 8, 12} : t[k] = "-"
  /\ \A k \in {1, 2, 3, 5, 6, 7, 9, 10, 11} : ~IsLower(t[k]) /\ t[k] # "-"
  /\ \A k \in 13..15 : IsDigit(t[k])

RefSegment(field, default) ==
  LET v == IF Len(field) = 0 THEN default ELSE field
  IN [k \in 1..(IF Len(v) > 3 THEN 3 ELSE Len(v)) |-> upper_char(v[k])]

\* The serial left-padded with zeros to four characters.
RefLeftPad(serial) ==
  [k \in 1..(IF Len(serial) > 4 THEN Len(serial) ELSE 4) |->
     LET shift == (IF Len(serial) > 4 THEN 0 ELSE 4 - Len(serial))
     IN IF k <= shift THEN "0" ELSE serial[k - shift]]

\* The serial zero-filled as str.zfill(4) does: a leading sign stays first.
RefZeroFill(serial) ==
  IF Len(serial) > 0 /\ Len(serial) < 4 /\ serial[1] \in {"+", "-"}
  THEN <<serial[1]>> \o Tail(RefLeftPad(Tail(serial)))
  ELSE RefLeftPad(serial)

RefTag(f, Pad(_)) ==
  RefSegment(f.asset_name, <<"A", "S", "T">>) \o <<"-">>
    \o RefSegment(f.location, <<"L", "O", "C">>) \o <<"-">>
    \o RefSegment(f.department, <<"G", "E", "N">>) \o <<"-">>
    \o (IF Len(f.serial_number) = 0 THEN <<"0", "0", "0", "0">>
        ELSE Pad(f.serial_number))

\* C12 (as claimed): in both variants the generated tag is the reference
\* formula's, with the serial left-padded with zeros to four characters.
C12_TagIsReference ==
  out.op = "generate_asset_tag" => out.tag = RefTag(out.form, RefLeftPad)

\* C12 (amended): in both variants the generated tag is
\* upper(first3(name or "AST")) - upper(first3(location or "LOC")) -
\* upper(first3(department or "GEN")) - serial, where an empty field takes its
\* default before truncation, a field shorter than three characters is used as
\* it is, an empty serial gives "0000" and any other serial is zero-filled to
\* four characters with a leading sign kept first; the tag depends on these four
\* fields only and is the same in the SQLite and the spreadsheet variant.
C12_TagIsZeroFilledReference ==
  out.op = "generate_asset_tag" =>
    /\ out.tag = RefTag(out.form, RefZeroFill)
    /\ generate_asset_tag(out.form) = xlsx_asset_tag(out.form)

\* C12 witness: the spreadsheet variant generated the tag of a form with an
\* empty name, a two-character department and a one-character serial.
C12_Witness ==
  /\ variant = "xlsx" /\ out.op = "generate_asset_tag"
  /\ out.form.asset_name = <<>>
  /\ out.form.department = <<"I", "T">>
  /\ out.form.serial_number = <<"7">>
  /\ out.tag = <<"A", "S", "T", "-", "A", "C", "C", "-", "I", "T", "-",
                 "0", "0", "0", "7">>

\* C13 (as claimed): once the SQLite variant has started on an empty users
\* table an administrator credential is stored, under the ADMIN_PASSWORD
\* secret or else a built-in default, so that a login as admin can succeed.
C13_AdminAfterStartup ==
  variant = "sqlite" =>
    /\ "admin" \in DOMAIN users
    /\ users["admin"].role = "admin"
    /\ \E p \in Passwords \cup AdminSecrets : verify_user(users, "admin", p)[1]

\* C14: updates of one tag by two sessions are not coordinated, the last write
\* wins: whenever a run writes its update, whatever the repository holds by
\* then, the stored record gets the counter the run had read plus 1 and the
\* history the run had read plus the current timestamp, and the run reports
\* success.
C14_LastWriteWins ==
  [][ \A s \in ConcSessions :
        FinishUpdate(s) =>
          /\ out'.kind = "success"
          /\ \E j \in 1..Len(run[s].snap), i \in 1..Len(assets') :
               /\ run[s].snap[j].asset_tag = run[s].sel
               /\ assets'[i].asset_tag = run[s].sel
               /\ assets'[i].update_count = run[s].snap[j].update_count + 1
               /\ HistoryEntries(assets'[i].update_history) =
                    Append(HistoryEntries(run[s].snap[j].update_history),
                           <<clock>>) ]_vars

\* C14 witness: the lost update.  Both sessions read the record at counter 0;
\* the other session's update was stored (counter 1, its timestamp in the
\* history) when this session wrote; the record now has counter 1 and a
\* history of this session's timestamp alone.
C14_Witness ==
  /\ out.op = "update" /\ out.kind = "success"
  /\ out.read.update_count = 0
  /\ out.stored # <<>>
  /\ out.stored[1].update_count = 1
  /\ Len(out.stored[1].update_history) = 1
  /\ \E i \in 1..Len(assets) :
       /\ assets[i].asset_tag = out.tag
       /\ assets[i].update_count = 1
       /\ assets[i].update_history = <<clock>>
       /\ out.stored[1].update_history # <<clock>>

\* C15 (as claimed): a stored record is never deleted: a tag that is present
\* is present after every step, for any interleaving of the creations and
\* updates of one or more sessions, in both variants.
C15_NeverDeleted ==
  [][ TagsOf(assets) \subseteq TagsOf(assets') ]_vars

\* Case-insensitive substring test.
HasSubstring(text, q) ==
  \E k \in 1..(Len(text) - Len(q) + 1) :
    \A i \in 1..Len(q) : upper_char(q[i]) = upper_char(text[k + i - 1])

\* The rows of the frame, in order, that satisfy every active filter.
ClaimedFiltered(df, q, cats, range) ==
  LET Keep(row) ==
        /\ q # <<>> => \/ HasSubstring(row.asset_name, q)
                       \/ HasSubstring(row.asset_tag, q)
                       \/ HasSubstring(row.description, q)
        /\ cats # {} => row.category \in cats
        /\ range # <<>> =>
             /\ to_datetime(row.purchase_date) # NaT
             /\ to_datetime(row.purchase_date) >= to_datetime(range[1])
             /\ to_datetime(row.purchase_date) <= to_datetime(range[2])
  IN SelectSeq(df, Keep)

\* C16 (as claimed): the dashboard's filtered set is exactly the records that
\* satisfy every active filter (the query occurring case-insensitively in the
\* name, the tag or the description; category membership; purchase date in
\* the inclusive range), and the count and the per-category counts are those of
\* the filtered set.
C16_DashboardFilter ==
  out.op = "dashboard" =>
    LET want == ClaimedFiltered(out.df, out.search_text, out.f_category,
                                out.date_range)
    IN /\ out.view.fdf = want
       /\ out.view.total_assets = Len(want)
       /\ \A c \in {"Laptop", "Printer"} :
            Cardinality({i \in 1..Len(want) : want[i].category = c}) =
              IF c \in DOMAIN out.view.cat_counts THEN out.view.cat_counts[c]
              ELSE 0

PageOps == {"view", "add", "update", "qr", "dashboard_page"}

\* C18: a session starts logged out.  In every step: the repository changes,
\* or an asset page, the label export or the dashboard shows something, only
\* with a logged-in session; the User Management form acts, and it alone
\* changes the users table from within the application, only with a logged-in
\* session whose role is 'admin'; a session becomes logged in only by a Login
\* whose verify_user succeeds, with that username and the role returned; and
\* Logout leaves the session logged out with username and role cleared.
C18_AccessControl ==
  /\ \A s \in Sessions :
       auth[s] = [logged_in |-> FALSE, username |-> "None", role |-> "None"]
  /\ [][ /\ assets' # assets => \E s \in Sessions : auth[s].logged_in
         /\ (out' # out /\ out'.op \in PageOps) =>
              \E s \in Sessions : auth[s].logged_in
         /\ (out' # out /\ out'.op = "user_mgmt") =>
              \E s \in Sessions : auth[s].logged_in /\ auth[s].role = "admin"
         /\ (users' # users /\ out'.op # "add_user") =>
              /\ out'.op = "user_mgmt"
              /\ \E s \in Sessions : auth[s].logged_in /\ auth[s].role = "admin"
         /\ \A s \in Sessions :
              /\ (~auth[s].logged_in /\ auth'[s].logged_in) =>
                   /\ out'.op = "login"
                   /\ \E p \in Passwords : verify_user(users, out'.username, p)[1]
                   /\ out'.ret[1]
                   /\ auth'[s] = [logged_in |-> TRUE, username |-> out'.username,
                                  role |-> users[out'.username].role]
              /\ (auth[s].logged_in /\ ~auth'[s].logged_in) =>
                   /\ out'.op = "logout"
                   /\ auth'[s] = [logged_in |-> FALSE, username |-> "None",
                                  role |-> "None"]
              /\ (auth[s].logged_in /\ auth'[s].logged_in) => auth'[s] = auth[s]
       ]_vars

\* C18 witness: a session logged in with role 'user' has an asset stored and
\* has just exported labels, while the users table holds an admin as well.
C18_Witness ==
  /\ \E s \in Sessions :
       /\ auth[s].logged_in /\ auth[s].role = "user"
       /\ auth[s].username = "user"
  /\ out.op = "qr" /\ out.kind = "download"
  /\ Len(assets) > 0
  /\ "admin" \in DOMAIN users

\* The last timestamp of a stored history.
LastEntry(h) == HistoryEntries(h)[Len(HistoryEntries(h))]

\* C19: in both variants, a record that appears in a step has Date Added and
\* Last Updated equal to the current time; no step changes the Date Added of
\* a stored record; and after every step each stored record's Last Updated
\* equals its Date Added while its counter is 0 and equals the last timestamp
\* of its history once the counter is above 0.
C19_DateAddedLastUpdated ==
  [][ \A i \in 1..Len(assets') :
        /\ IF i <= Len(assets)
           THEN assets'[i].date_added = assets[i].date_added
           ELSE /\ assets'[i].date_added = clock
                /\ assets'[i].last_updated = clock
        /\ assets'[i].update_count = 0 =>
             assets'[i].last_updated = assets'[i].date_added
        /\ assets'[i].update_count > 0 =>
             /\ HistoryEntries(assets'[i].update_history) # <<>>
             /\ <<assets'[i].last_updated>> =
                  LastEntry(assets'[i].update_history) ]_vars

\* C19 witness: a record created at time 0 has just been updated at time 1
\* for the second time.
C19_Witness ==
  /\ out.op = "update" /\ out.kind = "success"
  /\ \E i \in 1..Len(assets) :
       /\ assets[i].asset_tag = out.tag
       /\ assets[i].date_added = 0
       /\ assets[i].last_updated = 1
       /\ assets[i].update_count = 2

\* The record holds a disposal date.
HasDisposal(row) == row.disposal_date \notin {"None", "", "NaT", "nan"}

\* C20 (as claimed): a record that has a disposal date has one after every
\* later step: no update through the form makes it absent again.
C20_DisposalNeverCleared ==
  [][ \A i \in 1..Len(assets) :
        (/\ i <= Len(assets')
         /\ assets'[i].asset_tag = assets[i].asset_tag
         /\ HasDisposal(assets[i]))
        => HasDisposal(assets'[i]) ]_vars

\* C20 (amended): the repository changes only when a run saves.  A creation
\* stores a disposal date exactly when its form supplied one.  An update
\* whose run read the record with a disposal date writes a non-empty one; an
\* update whose run read it without one writes one exactly when its form
\* supplied one.  So a stored disposal date becomes absent again only by the
\* save of a run that had read the record without it (or, in the sheet, had
\* not read the record at all and put its new record in its place): another
\* session stored the date between that run's read and its write.
C20_DisposalKeptUnlessRaced ==
  [][ /\ assets' # assets =>
           \E s \in ConcSessions : FinishAdd(s) \/ FinishUpdate(s)
      /\ \A s \in ConcSessions :
           /\ (FinishAdd(s) /\ out'.kind = "success") =>
                /\ Len(assets') > 0
                /\ HasDisposal(assets'[Len(assets')]) = run[s].form.add_disposal
           /\ FinishUpdate(s) =>
                \E i \in 1..Len(assets') :
                  /\ assets'[i].asset_tag = out'.tag
                  /\ assets'[i].update_count = out'.read.update_count + 1
                  /\ HasDisposal(assets'[i]) =
                       (HasDisposal(out'.read) \/ run[s].form.add_disposal)
      /\ \A i \in 1..Len(assets) :
           (/\ i <= Len(assets')
            /\ assets'[i].asset_tag = assets[i].asset_tag
            /\ HasDisposal(assets[i])
            /\ ~HasDisposal(assets'[i]))
           => \E s \in ConcSessions :
                /\ FinishAdd(s) \/ FinishUpdate(s)
                /\ IF variant = "sqlite"
                   THEN run[s].action = "update" /\ ~HasDisposal(run[s].snap[1])
                   ELSE \/ i <= Len(run[s].snap) /\ ~HasDisposal(run[s].snap[i])
                        \/ i = Len(run[s].snap) + 1 /\ run[s].action = "add"
    ]_vars

\* C20 witness: an update has just been saved by a run that had read the
\* record with a disposal date and left the checkbox alone; the record still
\* has a disposal date.
C20_Witness ==
  /\ out.op = "update" /\ out.kind = "success"
  /\ HasDisposal(out.read)
  /\ out.stored # <<>> /\ HasDisposal(out.stored[1])
  /\ \E i \in 1..Len(assets) :
       /\ assets[i].asset_tag = out.tag
       /\ assets[i].update_count = out.read.update_count + 1
       /\ HasDisposal(assets[i])
====
